---- MODULE Spec2Model ----
(***************************************************************************)
(* Incremental bhavcopy ETL: the fetch loop, the incremental filter, the   *)
(* per-symbol merge and the symbolInfo.json update of getStockData_v1.py,  *)
(* run repeatedly against per-symbol CSV files and a manifest that persist *)
(* between runs.                                                           *)
(*                                                                         *)
(* Dates are pandas Timestamps normalised to midnight, modelled as the     *)
(* number of days since 1970-01-01.  Date strings are modelled by their    *)
(* digit groups: '%d%m%Y' is <<dd, mm, yyyy>>, '%Y-%m-%d' is               *)
(* <<yyyy, mm, dd>>.                                                       *)
(***************************************************************************)
EXTENDS Integers, Sequences, FiniteSets, TLC

(***************************************************************************)
(* Bounds of the model.                                                    *)
(***************************************************************************)
\* the clock runs from the day before initial_start_date_str for MaxDays days
MaxDays == 3
\* number of runs of the script
MaxRuns == 2
\* number of records in one day's table
MaxRows == 2

(***************************************************************************)
(* Program constants.                                                      *)
(***************************************************************************)
\* initial_start_date_str = '2019-10-01' as days since 1970-01-01
InitialStartDate == 18170
\* holidays_md
holidays_md == {<<1, 26>>, <<8, 15>>, <<10, 2>>}

\* symbols of the source, in the order groupby('SYMBOL') iterates them
SymbolOrder == <<"ABC", "XYZ">>
Symbols == {SymbolOrder[k] : k \in 1..Len(SymbolOrder)}
\* SERIES fields as they come from the source (with incidental whitespace)
SeriesRaw == {"EQ", " EQ", "BE", "eq"}
\* DELIV_PER fields as they come from the source
DelivRaw == {"45.5", "50.0", " -"}
\* not-a-number
NaN == -1

(***************************************************************************)
(* Calendar arithmetic of pandas Timestamps.                               *)
(***************************************************************************)
\* Timestamp -> <<year, month, day>>, computed
CivilOf(z0) ==
    LET z   == z0 + 719468
        era == z \div 146097
        doe == z - era * 146097
        yoe == (doe - doe \div 1460 + doe \div 36524 - doe \div 146096) \div 365
        doy == doe - (365 * yoe + yoe \div 4 - yoe \div 100)
        mp  == (5 * doy + 2) \div 153
        d   == doy - (153 * mp + 2) \div 5 + 1
        m   == IF mp < 10 THEN mp + 3 ELSE mp - 9
        y   == yoe + era * 400 + (IF m <= 2 THEN 1 ELSE 0)
    IN  <<y, m, d>>

\* the same for the days from 2018-09-26 to 2021-03-14, tabulated
CivilTable == [z \in 17800..18700 |-> CivilOf(z)]

\* Timestamp -> <<year, month, day>>
CivilFromDays(z0) ==
    IF z0 \in DOMAIN CivilTable THEN CivilTable[z0] ELSE CivilOf(z0)

\* <<year, month, day>> -> Timestamp
DaysFromCivil(y0, m, d) ==
    LET y   == IF m <= 2 THEN y0 - 1 ELSE y0
        era == y \div 400
        yoe == y - era * 400
        mp  == IF m > 2 THEN m - 3 ELSE m + 9
        doy == (153 * mp + 2) \div 5 + d - 1
        doe == yoe * 365 + yoe \div 4 - yoe \div 100 + doy
    IN  era * 146097 + doe - 719468

\* the days of the week counted from Sunday = 0
dayofweek_SundayFirst(ts) == (ts + 4) % 7

\* Timestamp.dayofweek, Monday = 0
dayofweek(ts) == (ts + 3) % 7

\* date_obj.strftime('%d%m%Y')
StrfDDMMYYYY(ts) ==
    LET c == CivilFromDays(ts) IN <<c[3], c[2], c[1]>>

\* pd.to_datetime(s, format='%d%m%Y')
ParseDDMMYYYY(s) == DaysFromCivil(s[3], s[2], s[1])

\* date_obj.strftime('%Y-%m-%d')
StrfISO(ts) == CivilFromDays(ts)

\* pd.to_datetime('YYYY-MM-DD')
ParseISO(s) == DaysFromCivil(s[1], s[2], s[3])

(***************************************************************************)
(* Sequence helpers.                                                       *)
(***************************************************************************)
\* the ascending sequence of a finite set of integers
SeqOfSet(S) ==
    IF S = {} THEN <<>>
    ELSE LET lo == CHOOSE x \in S : \A y \in S : x <= y
             hi == CHOOSE x \in S : \A y \in S : y <= x
         IN  SelectSeq([k \in 1..(hi - lo + 1) |-> lo + k - 1],
                       LAMBDA x : x \in S)

\* all sequences over S of length lo..hi
SeqsOf(S, lo, hi) == UNION {[1..n -> S] : n \in lo..hi}

(***************************************************************************)
(* Helper functions of the script.                                         *)
(***************************************************************************)
\* pd.to_datetime(f'{year}-{month:02d}-{day:02d}') raises ValueError for a
\* day that does not exist
IsCalendarDay(y, m, d) == CivilFromDays(DaysFromCivil(y, m, d)) = <<y, m, d>>

\* generate_valid_dates(start, end, holidays_month_day)
generate_valid_dates(start, end, holidays_month_day) ==
    LET all_dates    == start..end
        working_days == {t \in all_dates : dayofweek(t) < 5}
        years        == CivilFromDays(start)[1]..CivilFromDays(end)[1]
        holidays     == {DaysFromCivil(y, h[1], h[2]) :
                           <<y, h>> \in {yh \in years \X holidays_month_day :
                                           IsCalendarDay(yh[1], yh[2][1], yh[2][2])}}
    IN  SeqOfSet(working_days \ holidays)

\* pd.to_numeric(x, errors='coerce')
to_numeric(x) ==
    CASE x = "45.5" -> 455
      [] x = "50.0" -> 500
      [] OTHER      -> NaN

\* the field as it came, whitespace kept
strip_Nothing(x) == x

\* str.strip()
strip(x) ==
    CASE x = " EQ" -> "EQ"
      [] OTHER     -> x

(***************************************************************************)
(* The remote archive.  A response is a transport error, a "no data"       *)
(* body, or a table whose header may lack the SERIES column or one of the  *)
(* required columns.                                                       *)
(***************************************************************************)
RawRows == [SYMBOL : Symbols, SERIES : SeriesRaw, DELIV_PER : DelivRaw]

Responses ==
    [kind : {"error", "nodata"}, hasSeries : {TRUE}, hasRequired : {TRUE},
     rows : {<<>>}]
    \cup
    [kind : {"table"}, hasSeries : BOOLEAN, hasRequired : BOOLEAN,
     rows : SeqsOf(RawRows, 0, MaxRows)]

\* the body of the try block of the fetch loop: the frame appended to
\* newly_fetched_data_frames for one date (empty when nothing is appended)
DailyFrame(date_obj, response) ==
    IF response.kind # "table" THEN <<>>
    ELSE IF response.rows = <<>> THEN <<>>
    ELSE IF ~response.hasSeries THEN <<>>
    ELSE LET df_filtered_daily ==
                 SelectSeq(response.rows, LAMBDA r : strip(r.SERIES) = "EQ")
         IN  IF df_filtered_daily = <<>> THEN <<>>
             ELSE IF ~response.hasRequired THEN <<>>
             ELSE [k \in 1..Len(df_filtered_daily) |->
                     [SYMBOL     |-> df_filtered_daily[k].SYMBOL,
                      TRADE_DATE |-> StrfISO(date_obj),
                      DELIV_PER  |-> to_numeric(df_filtered_daily[k].DELIV_PER)]]

(***************************************************************************)
(* Incremental filter, transformation and per-symbol merge.                *)
(***************************************************************************)
\* last_scanned_date = None
None == -2

\* not-a-time: what pd.to_datetime returns for an empty text
NaT == -3

\* The manifest file 0_symbolInfo.json.  json is what json.load makes of its
\* text: "object" is a document with the LastDateScanned key, "keyless" one
\* without it, "list" an array, "scalar" a number or null, and "invalid" a
\* text that is not JSON (an empty or partly written file is one).
\* LastDateScanned is the digit groups of the key's text: <<>> is the empty
\* text and groups that name no calendar day are not a date.
\* the manifest when 0_symbolInfo.json does not exist
NoManifest ==
    [exists |-> FALSE, json |-> "invalid", symbol |-> <<>>,
     LastDateScanned |-> <<0, 0, 0>>]

\* the manifest after open(symbol_info_json_path, 'w') and before json.dump
\* has written the whole document and the file is closed
Truncated ==
    [exists |-> TRUE, json |-> "invalid", symbol |-> <<>>,
     LastDateScanned |-> <<0, 0, 0>>]

\* pd.to_datetime of the text of LastDateScanned: a Timestamp, NaT for the
\* empty text, and ValueError for a text that is not a date
to_datetime(text) ==
    IF text = <<>> THEN [value |-> NaT, raised |-> "none"]
    ELSE IF IsCalendarDay(text[1], text[2], text[3])
         THEN [value |-> ParseISO(text), raised |-> "none"]
         ELSE [value |-> None, raised |-> "ValueError"]

\* json.load, the test for the key, pd.to_datetime and the print of the
\* date: the value last_scanned_date holds when the statements end and the
\* exception they end with ("none" when they run to the end)
ReadLastDateScanned(m) ==
    CASE m.json = "invalid" -> [value |-> None, raised |-> "JSONDecodeError"]
      [] m.json = "scalar"  -> [value |-> None, raised |-> "TypeError"]
      [] m.json \in {"list", "keyless"} -> [value |-> None, raised |-> "none"]
      [] OTHER ->
           LET d == to_datetime(m.LastDateScanned)
           IN  IF d.raised # "none" THEN d
               ELSE IF d.value = NaT
                    THEN [value |-> NaT, raised |-> "ValueError"]
                    ELSE d

\* the per-symbol file when <symbol>.csv does not exist
NoFile == [exists |-> FALSE, rows |-> <<>>]

\* "Load last scanned date if exists": except Exception catches whatever
\* the statements raise and last_scanned_date keeps the value it holds
LoadLastScanned(m) ==
    IF m.exists THEN ReadLastDateScanned(m).value ELSE None

\* the filter left out: every fetched record goes on to the merge
FilterIncremental_Unfiltered(combined_df, last) == combined_df

\* the filter off by one: the record of the watermark's own date passes
FilterIncremental_AtOrAfter(combined_df, last) ==
    IF last # None
    THEN SelectSeq(combined_df, LAMBDA r : ParseISO(r.TRADE_DATE) >= last)
    ELSE combined_df

\* "Filter incremental"; a comparison with NaT is False for every record
FilterIncremental(combined_df, last) ==
    IF last # None
    THEN IF last = NaT THEN <<>>
         ELSE SelectSeq(combined_df, LAMBDA r : ParseISO(r.TRADE_DATE) > last)
    ELSE combined_df

\* df_filtered -> df_transformed: Date in '%d%m%Y', DelPerc = DELIV_PER
Transform(df_filtered) ==
    [k \in 1..Len(df_filtered) |->
       [SYMBOL  |-> df_filtered[k].SYMBOL,
        Date    |-> StrfDDMMYYYY(ParseISO(df_filtered[k].TRADE_DATE)),
        DelPerc |-> df_filtered[k].DELIV_PER]]

\* the keys of groupby('SYMBOL'), in sorted order
GroupKeys(df) ==
    SelectSeq(SymbolOrder, LAMBDA s : \E k \in 1..Len(df) : df[k].SYMBOL = s)

\* the group of one symbol, with the SYMBOL column dropped
SymbolFrame(df, s) ==
    LET g == SelectSeq(df, LAMBDA r : r.SYMBOL = s)
    IN  [k \in 1..Len(g) |-> [Date |-> g[k].Date, DelPerc |-> g[k].DelPerc]]

\* drop_duplicates(subset=['Date'], keep='last')
drop_duplicates(df) ==
    LET keep == {k \in 1..Len(df) :
                   \A j \in (k + 1)..Len(df) : df[j].Date # df[k].Date}
        idx  == SeqOfSet(keep)
    IN  [k \in 1..Len(idx) |-> df[idx[k]]]

RECURSIVE InsertByDate(_, _)
\* insert row r into the date-sorted frame, after the rows of the same date
InsertByDate(df, r) ==
    IF df = <<>> THEN <<r>>
    ELSE IF ParseDDMMYYYY(r.Date) < ParseDDMMYYYY(Head(df).Date)
         THEN <<r>> \o df
         ELSE <<Head(df)>> \o InsertByDate(Tail(df), r)

RECURSIVE sort_values(_)
\* to_datetime(format='%d%m%Y'), sort_values(by='Date'), strftime('%d%m%Y')
sort_values(df) ==
    IF df = <<>> THEN <<>>
    ELSE LET n == Len(df)
         IN  InsertByDate(sort_values(SubSeq(df, 1, n - 1)), df[n])

\* one file for every symbol
output_file_path_Shared(symbol) == SymbolOrder[1]

\* os.path.join(chart_dir, f'{symbol}.csv'): the file of the symbol
output_file_path(symbol) == symbol

\* the existing-file branch of the merge loop
MergeExisting(existing_df, symbol_df) ==
    sort_values(drop_duplicates(existing_df \o symbol_df))

\* the new-file branch of the merge loop
MergeNew(symbol_df) == symbol_df

\* one iteration of the merge loop: the file left for the symbol
MergeSymbol(file, symbol_df) ==
    IF file.exists
    THEN [exists |-> TRUE, rows |-> MergeExisting(file.rows, symbol_df)]
    ELSE [exists |-> TRUE, rows |-> MergeNew(symbol_df)]

RECURSIVE unique(_)
\* Series.unique(): the values in order of first appearance
unique(s) ==
    IF s = <<>> THEN <<>>
    ELSE LET n    == Len(s)
             init == unique(SubSeq(s, 1, n - 1))
         IN  IF \E k \in 1..Len(init) : init[k] = s[n]
             THEN init ELSE Append(init, s[n])

\* the date of the first record instead of the latest one
MaxTradeDate_FirstRow(combined_df) == ParseISO(combined_df[1].TRADE_DATE)

\* pd.to_datetime(combined_df['TRADE_DATE']).max()
MaxTradeDate(combined_df) ==
    LET ds == {ParseISO(combined_df[k].TRADE_DATE) : k \in 1..Len(combined_df)}
    IN  CHOOSE x \in ds : \A y \in ds : y <= x

\* symbol_info_data_final
SymbolInfo(combined_df) ==
    [exists          |-> TRUE,
     json            |-> "object",
     symbol          |-> unique([k \in 1..Len(combined_df) |-> combined_df[k].SYMBOL]),
     LastDateScanned |-> StrfISO(MaxTradeDate(combined_df))]

(***************************************************************************)
(* State.                                                                  *)
(***************************************************************************)
VARIABLES
    today,                      \* pd.Timestamp.now().normalize() of the clock
    files,                      \* StockData/<symbol>.csv, per symbol
    manifest,                   \* StockData/0_symbolInfo.json
    pc,                         \* position of the script
    runs,                       \* number of runs started
    valid_dates_to_fetch,       \* the fetch window of the run
    di,                         \* position of the fetch loop in the window
    newly_fetched_data_frames,  \* the frames appended so far, concatenated
    last_scanned_date,          \* LastDateScanned as read by the run, or None
    df_transformed,             \* the incremental records, transformed
    grouped,                    \* the groupby keys still to be merged
    requested,                  \* dates requested from the archive in this run
    erroredNow,                 \* dates whose fetch raised in this run
    erroredPast,                \* dates whose fetch raised in an earlier run
    filesAtStart,               \* the per-symbol files when the run started
    manifestAtStart,            \* the manifest when the run started
    nwrites,                    \* files written by this run (CSV and manifest)
    crashes,                    \* consecutive runs that crashed before this one
    preCrash,                   \* files and manifest before the first of them
    crashedDf,                  \* combined_df of the crashed run, if it merged
    slept,                      \* time.sleep(0.2) ran since the last request
    nodataNow,                  \* dates the archive had no data for in this run
    nodataPast,                 \* dates it had no data for in an earlier run
                                \* that committed
    failedSymbol,               \* symbol whose file I/O raised in this run
    mwrites,                    \* times this run opened the manifest to write it
    csv,                        \* data/nse_eq_combined_deliveryPerc.csv
    nDate,                      \* normalization check: date_obj
    nResponse,                  \* normalization check: the archive's response
    nFrame,                     \* normalization check: the frame appended
    nStep,                      \* normalization check: position
    cStart,                     \* calendar check: start
    cEnd,                       \* calendar check: end
    cHolidays,                  \* calendar check: holidays_month_day
    cDates,                     \* calendar check: the dates returned
    cStep,                      \* calendar check: position
    oFiles,                     \* order check: the per-symbol files
    oPrior,                     \* order check: the files before the merge loop
    oDf,                        \* order check: df_transformed
    oLeft,                      \* order check: the groups still to be merged
    oOrder,                     \* order check: the symbols merged, in the order taken
    gPrev,                      \* change check: PREV_CLOSE of the record
    gClose,                     \* change check: CLOSE_PRICE of the record
    gFirst,                     \* change check: Change_Percentage as first computed
    gChange,                    \* change check: Change_Percentage of the record
    gStep,                      \* change check: position
    fCsv,                       \* delivery fetch: data/nse_eq_combined_data.csv
    fCsvAtStart,                \* delivery fetch: the file when the run started
    fToday,                     \* delivery fetch: current_local_time.normalize()
    fHour,                      \* delivery fetch: current_local_time.hour
    fWindow,                    \* delivery fetch: valid_dates_to_fetch
    fDi,                        \* delivery fetch: position of the fetch loop
    fNew,                       \* delivery fetch: newly_fetched_data_frames, concatenated
    fStep,                      \* delivery fetch: position of the script
    mFile,                      \* merge check: the symbol's file
    mNew,                       \* merge check: the batch symbol_df
    mPrior,                     \* merge check: the file before the merges
    mOnce,                      \* merge check: the file after the first merge
    mCount                      \* merge check: merges applied

vars == <<today, files, manifest, pc, runs, valid_dates_to_fetch, di,
          newly_fetched_data_frames, last_scanned_date, df_transformed,
          grouped, requested, erroredNow, erroredPast, filesAtStart,
          manifestAtStart, nwrites, crashes, preCrash, crashedDf,
          slept, nodataNow, nodataPast, failedSymbol, mwrites, csv,
          nDate, nResponse, nFrame, nStep,
          cStart, cEnd, cHolidays, cDates, cStep,
          oFiles, oPrior, oDf, oLeft, oOrder,
          gPrev, gClose, gFirst, gChange, gStep,
          fCsv, fCsvAtStart, fToday, fHour, fWindow, fDi, fNew, fStep,
          mFile, mNew, mPrior, mOnce, mCount>>

runVars == <<today, files, manifest, pc, runs, valid_dates_to_fetch, di,
             newly_fetched_data_frames, last_scanned_date, df_transformed,
             grouped, requested, erroredNow, erroredPast, filesAtStart,
             manifestAtStart, nwrites, crashes, preCrash, crashedDf,
             slept, nodataNow, nodataPast, failedSymbol, mwrites>>

mergeVars == <<mFile, mNew, mPrior, mOnce, mCount>>

\* the variables of the checks of single steps
normalizeVars == <<nDate, nResponse, nFrame, nStep>>

calendarVars == <<cStart, cEnd, cHolidays, cDates, cStep>>

orderVars == <<oFiles, oPrior, oDf, oLeft, oOrder>>

changeVars == <<gPrev, gClose, gFirst, gChange, gStep>>

deliveryVars == <<fCsv, fCsvAtStart, fToday, fHour, fWindow, fDi, fNew, fStep>>

sideVars == <<mergeVars, csv, normalizeVars, calendarVars,
             orderVars,
             changeVars,
             deliveryVars>>

\* no symbol
NoSymbol == ""

\* the last day the clock reaches
LastToday == InitialStartDate - 1 + MaxDays

\* no run has started: the clock at day t, no per-symbol file, manifest m
InitIdle(t, m) ==
    /\ today = t
    /\ files = [s \in Symbols |-> NoFile]
    /\ manifest = m
    /\ pc = "idle"
    /\ runs = 0
    /\ valid_dates_to_fetch = <<>>
    /\ di = 1
    /\ newly_fetched_data_frames = <<>>
    /\ last_scanned_date = None
    /\ df_transformed = <<>>
    /\ grouped = <<>>
    /\ requested = <<>>
    /\ erroredNow = {}
    /\ erroredPast = {}
    /\ filesAtStart = files
    /\ manifestAtStart = manifest
    /\ nwrites = 0
    /\ crashes = 0
    /\ preCrash = [files |-> files, manifest |-> manifest]
    /\ crashedDf = <<>>
    /\ slept = FALSE
    /\ nodataNow = {}
    /\ nodataPast = {}
    /\ failedSymbol = NoSymbol
    /\ mwrites = 0

InitRun == InitIdle(InitialStartDate - 1, NoManifest)

InitMergeIdle ==
    /\ mFile = NoFile
    /\ mNew = <<>>
    /\ mPrior = NoFile
    /\ mOnce = NoFile
    /\ mCount = 0

\* the combined CSV of deliveryPerc_v2.py does not exist
InitChartIdle == csv = <<>>

\* a response with no data
NoData == [kind |-> "nodata", hasSeries |-> TRUE, hasRequired |-> TRUE,
           rows |-> <<>>]

InitNormalizeIdle ==
    /\ nDate = InitialStartDate
    /\ nResponse = NoData
    /\ nFrame = <<>>
    /\ nStep = "idle"

InitCalendarIdle ==
    /\ cStart = InitialStartDate
    /\ cEnd = InitialStartDate
    /\ cHolidays = {}
    /\ cDates = <<>>
    /\ cStep = "idle"

InitOrderIdle ==
    /\ oFiles = [s \in Symbols |-> NoFile]
    /\ oPrior = oFiles
    /\ oDf = <<>>
    /\ oLeft = {}
    /\ oOrder = <<>>

InitChangeIdle ==
    /\ gPrev = NaN
    /\ gClose = NaN
    /\ gFirst = [kind |-> "nan", value |-> 0]
    /\ gChange = gFirst
    /\ gStep = "idle"

InitDeliveryIdle ==
    /\ fCsv = NoFile
    /\ fCsvAtStart = NoFile
    /\ fToday = InitialStartDate
    /\ fHour = 0
    /\ fWindow = <<>>
    /\ fDi = 1
    /\ fNew = <<>>
    /\ fStep = "idle"

Init ==
    /\ InitRun
    /\ InitMergeIdle
    /\ InitChartIdle
    /\ InitNormalizeIdle
    /\ InitCalendarIdle
    /\ InitOrderIdle
    /\ InitChangeIdle
    /\ InitDeliveryIdle

(***************************************************************************)
(* One run of getStockData_v1.py.                                          *)
(***************************************************************************)
\* the clock passes midnight between two runs
Tick ==
    /\ pc \in {"idle", "done", "crashed"}
    /\ runs < MaxRuns
    /\ today < LastToday
    /\ today' = today + 1
    /\ UNCHANGED <<files, manifest, pc, runs, valid_dates_to_fetch, di,
                   newly_fetched_data_frames, last_scanned_date, df_transformed,
                   grouped, requested, erroredNow, erroredPast, filesAtStart,
                   manifestAtStart, nwrites, crashes, preCrash, crashedDf,
                   slept, nodataNow, nodataPast, failedSymbol, mwrites>>
    /\ UNCHANGED sideVars

\* the window resumed from the manifest: the day after LastDateScanned
start_date_AfterWatermark ==
    IF LoadLastScanned(manifest) \notin {None, NaT}
    THEN LoadLastScanned(manifest) + 1
    ELSE InitialStartDate

\* start_date = pd.to_datetime(initial_start_date_str)
start_date == InitialStartDate

\* the script starts: "5. Initialize" and the window
StartRun ==
    /\ pc \in {"idle", "done", "crashed"}
    /\ runs < MaxRuns
    /\ runs' = runs + 1
    /\ valid_dates_to_fetch' = generate_valid_dates(start_date, today, holidays_md)
    /\ di' = 1
    /\ newly_fetched_data_frames' = <<>>
    /\ last_scanned_date' = None
    /\ df_transformed' = <<>>
    /\ grouped' = <<>>
    /\ requested' = <<>>
    /\ erroredPast' = erroredPast \cup erroredNow
    /\ erroredNow' = {}
    /\ filesAtStart' = files
    /\ manifestAtStart' = manifest
    /\ nwrites' = 0
    /\ crashes' = IF pc = "crashed" THEN crashes + 1 ELSE 0
    /\ preCrash' = IF pc = "crashed" THEN preCrash
                   ELSE [files |-> files, manifest |-> manifest]
    /\ crashedDf' = IF pc = "crashed" THEN crashedDf ELSE <<>>
    /\ slept' = FALSE
    /\ nodataPast' = IF pc = "done" /\ mwrites > 0
                     THEN nodataPast \cup nodataNow ELSE nodataPast
    /\ nodataNow' = {}
    /\ failedSymbol' = NoSymbol
    /\ mwrites' = 0
    /\ pc' = "fetch"
    /\ UNCHANGED <<today, files, manifest>>
    /\ UNCHANGED sideVars

\* the iteration ends with a continue statement, which passes over
\* time.sleep(0.2): no data, an empty table, no SERIES column, no EQ row
Continues(response) ==
    \/ response.kind = "nodata"
    \/ /\ response.kind = "table"
       /\ \/ response.rows = <<>>
          \/ ~response.hasSeries
          \/ SelectSeq(response.rows, LAMBDA r : strip(r.SERIES) = "EQ") = <<>>

\* requests.get without a timeout, and an archive that accepts the request
\* for initial_start_date_str and never answers it
FetchOutcomes_NoTimeout ==
    [date_obj \in (InitialStartDate - 1)..(InitialStartDate - 1 + MaxDays) |->
       IF date_obj = InitialStartDate THEN {}
       ELSE {[frame  |-> DailyFrame(date_obj, response),
              raised |-> response.kind = "error",
              nodata |-> response.kind = "nodata",
              sleeps |-> ~Continues(response)] : response \in Responses}]

\* what one iteration of the fetch loop can do for date_obj: the frame it
\* appends, whether the request raised, whether the archive had no data and
\* whether the iteration reached time.sleep(0.2), over every response of the
\* archive
FetchOutcomes ==
    [date_obj \in (InitialStartDate - 1)..(InitialStartDate - 1 + MaxDays) |->
       {[frame  |-> DailyFrame(date_obj, response),
         raised |-> response.kind = "error",
         nodata |-> response.kind = "nodata",
         sleeps |-> ~Continues(response)] : response \in Responses}]

\* the frames lost with the iteration that raised
Accumulate_DropOnError(frames, outcome) ==
    IF outcome.raised THEN <<>> ELSE frames \o outcome.frame

\* newly_fetched_data_frames.append(df_filtered_daily), and nothing for an
\* iteration that ends before it
Accumulate(frames, outcome) == frames \o outcome.frame

\* one iteration of the fetch loop
FetchDate ==
    /\ pc = "fetch"
    /\ di <= Len(valid_dates_to_fetch)
    /\ \E outcome \in FetchOutcomes[valid_dates_to_fetch[di]] :
         /\ Len(newly_fetched_data_frames) + Len(outcome.frame) <= MaxRows
         /\ newly_fetched_data_frames' =
                Accumulate(newly_fetched_data_frames, outcome)
         /\ erroredNow' = IF outcome.raised
                          THEN erroredNow \cup {valid_dates_to_fetch[di]}
                          ELSE erroredNow
         /\ nodataNow' = IF outcome.nodata
                         THEN nodataNow \cup {valid_dates_to_fetch[di]}
                         ELSE nodataNow
         /\ slept' = outcome.sleeps
    /\ requested' = Append(requested, valid_dates_to_fetch[di])
    /\ di' = di + 1
    /\ UNCHANGED <<today, files, manifest, pc, runs, valid_dates_to_fetch,
                   last_scanned_date, df_transformed, grouped, erroredPast,
                   filesAtStart, manifestAtStart, nwrites, crashes, preCrash,
                   crashedDf, nodataPast, failedSymbol, mwrites>>
    /\ UNCHANGED sideVars

\* "8. Combine", the manifest read, the incremental filter and the groupby
Combine ==
    /\ pc = "fetch"
    /\ di > Len(valid_dates_to_fetch)
    /\ LET combined_df == newly_fetched_data_frames
           last        == LoadLastScanned(manifest)
           df_filtered == FilterIncremental(combined_df, last)
       IN  IF combined_df = <<>>
           THEN /\ pc' = "done"
                /\ UNCHANGED <<last_scanned_date, df_transformed, grouped>>
           ELSE /\ last_scanned_date' = last
                /\ IF df_filtered = <<>>
                   THEN /\ pc' = "done"
                        /\ UNCHANGED <<df_transformed, grouped>>
                   ELSE /\ df_transformed' = Transform(df_filtered)
                        /\ grouped' = GroupKeys(df_transformed')
                        /\ pc' = "merge"
    /\ UNCHANGED <<today, files, manifest, runs, valid_dates_to_fetch, di,
                   newly_fetched_data_frames, requested, erroredNow, erroredPast,
                   filesAtStart, manifestAtStart, nwrites, crashes, preCrash,
                   crashedDf, slept, nodataNow, nodataPast, failedSymbol, mwrites>>
    /\ UNCHANGED sideVars

\* one iteration of the per-symbol merge loop
MergeNext ==
    /\ pc = "merge"
    /\ grouped # <<>>
    /\ LET symbol == Head(grouped)
           path   == output_file_path(symbol)
       IN  files' = [files EXCEPT
                       ![path] = MergeSymbol(files[path],
                                             SymbolFrame(df_transformed, symbol))]
    /\ grouped' = Tail(grouped)
    /\ nwrites' = nwrites + 1
    /\ UNCHANGED <<today, manifest, pc, runs, valid_dates_to_fetch, di,
                   newly_fetched_data_frames, last_scanned_date, df_transformed,
                   requested, erroredNow, erroredPast, filesAtStart,
                   manifestAtStart, crashes, preCrash, crashedDf,
                   slept, nodataNow, nodataPast, failedSymbol, mwrites>>
    /\ UNCHANGED sideVars

\* pd.read_csv or to_csv of one symbol's file raises (a file that cannot be
\* read or written): nothing in the merge loop catches it and the script
\* ends with the traceback, the file as it was
MergeRaise ==
    /\ pc = "merge"
    /\ grouped # <<>>
    /\ failedSymbol' = Head(grouped)
    /\ pc' = "crashed"
    /\ crashedDf' = IF crashedDf = <<>>
                    THEN newly_fetched_data_frames ELSE crashedDf
    /\ di' = 1
    /\ newly_fetched_data_frames' = <<>>
    /\ last_scanned_date' = None
    /\ df_transformed' = <<>>
    /\ grouped' = <<>>
    /\ UNCHANGED <<today, files, manifest, runs, valid_dates_to_fetch, requested,
                   erroredNow, erroredPast, filesAtStart, manifestAtStart,
                   nwrites, crashes, preCrash, slept, nodataNow, nodataPast,
                   mwrites>>
    /\ UNCHANGED sideVars

\* "Update symbolInfo.json": open(symbol_info_json_path, 'w') creates the
\* file or truncates it
OpenSymbolInfo ==
    /\ pc = "merge"
    /\ grouped = <<>>
    /\ manifest' = Truncated
    /\ mwrites' = mwrites + 1
    /\ pc' = "write"
    /\ UNCHANGED <<today, files, runs, valid_dates_to_fetch, di,
                   newly_fetched_data_frames, last_scanned_date, df_transformed,
                   grouped, requested, erroredNow, erroredPast, filesAtStart,
                   manifestAtStart, nwrites, crashes, preCrash, crashedDf,
                   slept, nodataNow, nodataPast, failedSymbol>>
    /\ UNCHANGED sideVars

\* "Update symbolInfo.json": json.dump has written the document and the
\* file is closed
UpdateSymbolInfo ==
    /\ pc = "write"
    /\ manifest' = SymbolInfo(newly_fetched_data_frames)
    /\ nwrites' = nwrites + 1
    /\ pc' = "done"
    /\ UNCHANGED <<today, files, runs, valid_dates_to_fetch, di,
                   newly_fetched_data_frames, last_scanned_date, df_transformed,
                   grouped, requested, erroredNow, erroredPast, filesAtStart,
                   manifestAtStart, crashes, preCrash, crashedDf,
                   slept, nodataNow, nodataPast, failedSymbol, mwrites>>
    /\ UNCHANGED sideVars

\* the process dies in the fetch loop, between two merges, before the
\* manifest write or in the middle of it; what it held in memory is lost
Crash ==
    /\ pc \in {"fetch", "merge", "write"}
    /\ pc' = "crashed"
    /\ crashedDf' = IF pc \in {"merge", "write"} /\ crashedDf = <<>>
                    THEN newly_fetched_data_frames ELSE crashedDf
    /\ di' = 1
    /\ newly_fetched_data_frames' = <<>>
    /\ last_scanned_date' = None
    /\ df_transformed' = <<>>
    /\ grouped' = <<>>
    /\ UNCHANGED <<today, files, manifest, runs, valid_dates_to_fetch, requested,
                   erroredNow, erroredPast, filesAtStart, manifestAtStart,
                   nwrites, crashes, preCrash, slept, nodataNow, nodataPast,
                   failedSymbol, mwrites>>
    /\ UNCHANGED sideVars

Next ==
    \/ Tick
    \/ StartRun
    \/ FetchDate
    \/ Combine
    \/ MergeNext
    \/ MergeRaise
    \/ OpenSymbolInfo
    \/ UpdateSymbolInfo
    \/ Crash

Spec == Init /\ [][Next]_vars

(***************************************************************************)
(* The runs whose process is not killed and whose file I/O succeeds.  The  *)
(* script is one sequential process: the statement it is at runs, and      *)
(* requests.get(url, timeout=10) returns or raises, so a step of the       *)
(* script that can be taken is taken.  When the script is started and when *)
(* the clock moves is up to its user.                                      *)
(***************************************************************************)
\* the statements after the fetch loop
AfterFetchLoop ==
    \/ Combine
    \/ MergeNext
    \/ OpenSymbolInfo
    \/ UpdateSymbolInfo

LiveNext ==
    \/ Tick
    \/ StartRun
    \/ FetchDate
    \/ AfterFetchLoop

\* the script has left the fetch loop and is not at its end: the states in
\* which a step of AfterFetchLoop can be taken, ENABLED <<AfterFetchLoop>>_vars
PastFetchLoop ==
    \/ pc = "fetch" /\ di > Len(valid_dates_to_fetch)
    \/ pc \in {"merge", "write"}

\* weak fairness of the statements after the fetch loop: WF_vars(AfterFetchLoop)
\* with its ENABLED written as the state predicate PastFetchLoop
FairAfterFetchLoop ==
    \/ []<>(~PastFetchLoop)
    \/ []<><<AfterFetchLoop>>_vars

SpecLive ==
    Init /\ [][LiveNext]_vars /\ WF_vars(FetchDate) /\ FairAfterFetchLoop

(***************************************************************************)
(* The merge step on its own: one iteration of the per-symbol merge loop,  *)
(* applied once and then once more with the same batch, for every prior    *)
(* file and every batch the groupby can hand to it.                        *)
(***************************************************************************)
\* the dates a window of the model can hold
WindowDates ==
    LET w == generate_valid_dates(start_date, LastToday, holidays_md)
    IN  {w[k] : k \in 1..Len(w)}

\* DelPerc values of the records
DelPercValues == {to_numeric(x) : x \in DelivRaw}

\* rows of a per-symbol file
FileRows == [Date : {StrfDDMMYYYY(t) : t \in WindowDates}, DelPerc : DelPercValues]

\* a series with strictly increasing dates
StrictlyAscending(rows) ==
    \A k \in 1..(Len(rows) - 1) :
        ParseDDMMYYYY(rows[k].Date) < ParseDDMMYYYY(rows[k + 1].Date)

\* a frame in fetch order: dates never decrease
FetchOrdered(rows) ==
    \A k \in 1..(Len(rows) - 1) :
        ParseDDMMYYYY(rows[k].Date) <= ParseDDMMYYYY(rows[k + 1].Date)

\* the files a merge can find: none, or a series written by earlier merges
PriorFiles ==
    {NoFile} \cup
    {[exists |-> TRUE, rows |-> r] :
       r \in {q \in SeqsOf(FileRows, 1, Cardinality(WindowDates)) :
                StrictlyAscending(q)}}

\* the groups the groupby hands to the merge loop: never empty, in fetch order
Batches == {q \in SeqsOf(FileRows, 1, MaxRows) : FetchOrdered(q)}

InitMerge ==
    /\ mPrior \in PriorFiles
    /\ mNew \in Batches
    /\ mFile = mPrior
    /\ mOnce = NoFile
    /\ mCount = 0

\* the merge loop body runs for the symbol with the batch
MergeApply ==
    /\ mCount < 2
    /\ mFile' = MergeSymbol(mFile, mNew)
    /\ mOnce' = IF mCount = 0 THEN mFile' ELSE mOnce
    /\ mCount' = mCount + 1
    /\ UNCHANGED <<mNew, mPrior>>
    /\ UNCHANGED runVars
    /\ UNCHANGED <<csv, normalizeVars, calendarVars, orderVars, changeVars, deliveryVars>>

MergeInit ==
    /\ InitRun
    /\ InitChartIdle
    /\ InitNormalizeIdle
    /\ InitCalendarIdle
    /\ InitMerge
    /\ InitOrderIdle
    /\ InitChangeIdle
    /\ InitDeliveryIdle

MergeNextState == MergeApply

SpecMerge == MergeInit /\ [][MergeNextState]_vars

(***************************************************************************)
(* The two-script pipeline: deliveryPerc_v2.py fetches the dates after the *)
(* latest one of the combined CSV and saves the CSV, bulkToCsvForChart.py  *)
(* then makes the per-symbol files and the manifest from the CSV.          *)
(***************************************************************************)
\* initial_start_date_str = '2021-01-01' of deliveryPerc_v2.py
InitialStartDateV2 == 18628

\* the last day the clock of the pipeline reaches
LastTodayV2 == InitialStartDateV2 + MaxDays

\* the variables the pipeline leaves alone
chartIdleVars == <<erroredNow, erroredPast, crashes, preCrash, crashedDf,
                   failedSymbol, mergeVars, normalizeVars, calendarVars,
                   orderVars,
                   changeVars,
                   deliveryVars>>

ChartInit ==
    /\ InitIdle(InitialStartDateV2, NoManifest)
    /\ InitMergeIdle
    /\ InitChartIdle
    /\ InitNormalizeIdle
    /\ InitCalendarIdle
    /\ InitOrderIdle
    /\ InitChangeIdle
    /\ InitDeliveryIdle

\* days pass between two runs of the pipeline
ChartTick ==
    /\ pc \in {"idle", "done", "crashed"}
    /\ runs < MaxRuns
    /\ \E k \in 1..MaxDays :
         /\ today + k <= LastTodayV2
         /\ today' = today + k
    /\ UNCHANGED <<files, manifest, csv, pc, runs, valid_dates_to_fetch, di,
                   newly_fetched_data_frames, last_scanned_date, df_transformed,
                   grouped, requested, filesAtStart, manifestAtStart, nwrites,
                   slept, nodataNow, nodataPast, mwrites>>
    /\ UNCHANGED chartIdleVars

\* "4. Check if output_csv_file exists": the window of deliveryPerc_v2.py
V2Window ==
    IF csv = <<>>
    THEN generate_valid_dates(InitialStartDateV2, today, holidays_md)
    ELSE LET latest_existing_date == MaxTradeDate(csv)
         IN  IF latest_existing_date >= today THEN <<>>
             ELSE generate_valid_dates(latest_existing_date + 1, today,
                                       holidays_md)

\* deliveryPerc_v2.py starts
V2Start ==
    /\ pc \in {"idle", "done", "crashed"}
    /\ runs < MaxRuns
    /\ runs' = runs + 1
    /\ valid_dates_to_fetch' = V2Window
    /\ di' = 1
    /\ newly_fetched_data_frames' = <<>>
    /\ last_scanned_date' = None
    /\ df_transformed' = <<>>
    /\ grouped' = <<>>
    /\ requested' = <<>>
    /\ filesAtStart' = files
    /\ manifestAtStart' = manifest
    /\ nwrites' = 0
    /\ slept' = FALSE
    /\ nodataPast' = IF pc = "done" /\ mwrites > 0
                     THEN nodataPast \cup nodataNow ELSE nodataPast
    /\ nodataNow' = {}
    /\ mwrites' = 0
    /\ pc' = "v2fetch"
    /\ UNCHANGED <<today, files, manifest, csv>>
    /\ UNCHANGED chartIdleVars

\* the iteration of deliveryPerc_v2.py ends with a continue statement: no
\* data, an empty table, no SERIES column
ContinuesV2(response) ==
    \/ response.kind = "nodata"
    \/ /\ response.kind = "table"
       /\ \/ response.rows = <<>>
          \/ ~response.hasSeries

\* what one iteration of the fetch loop of deliveryPerc_v2.py can do
FetchOutcomesV2 ==
    [date_obj \in InitialStartDateV2..LastTodayV2 |->
       {[frame  |-> DailyFrame(date_obj, response),
         raised |-> response.kind = "error",
         nodata |-> response.kind = "nodata",
         sleeps |-> ~ContinuesV2(response)] : response \in Responses}]

\* one iteration of the fetch loop of deliveryPerc_v2.py
V2Fetch ==
    /\ pc = "v2fetch"
    /\ di <= Len(valid_dates_to_fetch)
    /\ \E outcome \in FetchOutcomesV2[valid_dates_to_fetch[di]] :
         /\ Len(newly_fetched_data_frames) + Len(outcome.frame) <= MaxRows
         /\ newly_fetched_data_frames' =
                Accumulate(newly_fetched_data_frames, outcome)
         /\ nodataNow' = IF outcome.nodata
                         THEN nodataNow \cup {valid_dates_to_fetch[di]}
                         ELSE nodataNow
         /\ slept' = outcome.sleeps
    /\ requested' = Append(requested, valid_dates_to_fetch[di])
    /\ di' = di + 1
    /\ UNCHANGED <<today, files, manifest, csv, pc, runs, valid_dates_to_fetch,
                   last_scanned_date, df_transformed, grouped, filesAtStart,
                   manifestAtStart, nwrites, nodataPast, mwrites>>
    /\ UNCHANGED chartIdleVars

\* "8. Combine" to "10. Save to CSV": the existing rows and then the new ones
V2Save ==
    /\ pc = "v2fetch"
    /\ di > Len(valid_dates_to_fetch)
    /\ csv' = csv \o newly_fetched_data_frames
    /\ pc' = "chart"
    /\ UNCHANGED <<today, files, manifest, runs, valid_dates_to_fetch, di,
                   newly_fetched_data_frames, last_scanned_date, df_transformed,
                   grouped, requested, filesAtStart, manifestAtStart, nwrites,
                   slept, nodataNow, nodataPast, mwrites>>
    /\ UNCHANGED chartIdleVars

\* df['DELIV_PER'].fillna(0.0), values in tenths
fillna(x) == IF x = NaN THEN 0 ELSE x

\* "2. Load the nse_eq_combined_deliveryPerc.csv file"
ChartFrame(rows) ==
    [k \in 1..Len(rows) |->
       [SYMBOL     |-> rows[k].SYMBOL,
        TRADE_DATE |-> rows[k].TRADE_DATE,
        DELIV_PER  |-> fillna(rows[k].DELIV_PER)]]

\* "4. Determine Last Scanned Date": only JSONDecodeError and KeyError are
\* caught, anything else the statements raise ends the script
ChartLoadLastScanned(m) ==
    IF ~m.exists THEN [value |-> None, terminated |-> FALSE]
    ELSE LET r == ReadLastDateScanned(m)
         IN  [value      |-> r.value,
              terminated |-> r.raised \notin {"none", "JSONDecodeError",
                                              "KeyError"}]

\* bulkToCsvForChart.py starts: load, last scanned date, filter, transform
\* and groupby; pd.read_csv raises when the combined CSV does not exist
ChartStart ==
    /\ pc = "chart"
    /\ LET df          == ChartFrame(csv)
           loaded      == ChartLoadLastScanned(manifest)
           df_filtered == FilterIncremental(df, loaded.value)
       IN  IF csv = <<>> \/ loaded.terminated
           THEN /\ pc' = "crashed"
                /\ UNCHANGED <<last_scanned_date, df_transformed, grouped>>
           ELSE /\ last_scanned_date' = loaded.value
                /\ df_transformed' = Transform(df_filtered)
                /\ grouped' = GroupKeys(df_transformed')
                /\ pc' = "chartmerge"
    /\ UNCHANGED <<today, files, manifest, csv, runs, valid_dates_to_fetch, di,
                   newly_fetched_data_frames, requested, filesAtStart,
                   manifestAtStart, nwrites, slept, nodataNow, nodataPast,
                   mwrites>>
    /\ UNCHANGED chartIdleVars

\* "7. Generate and Append Individual Stock CSVs": one iteration
ChartMerge ==
    /\ pc = "chartmerge"
    /\ grouped # <<>>
    /\ LET symbol == Head(grouped)
           path   == output_file_path(symbol)
       IN  files' = [files EXCEPT
                       ![path] = MergeSymbol(files[path],
                                             SymbolFrame(df_transformed, symbol))]
    /\ grouped' = Tail(grouped)
    /\ nwrites' = nwrites + 1
    /\ UNCHANGED <<today, manifest, csv, pc, runs, valid_dates_to_fetch, di,
                   newly_fetched_data_frames, last_scanned_date, df_transformed,
                   requested, filesAtStart, manifestAtStart, slept, nodataNow,
                   nodataPast, mwrites>>
    /\ UNCHANGED chartIdleVars

\* "8. Generate Updated Symbol Info JSON": outside the if, so it runs whether
\* or not there was new data to process
ChartWriteInfo ==
    /\ pc = "chartmerge"
    /\ grouped = <<>>
    /\ manifest' = SymbolInfo(ChartFrame(csv))
    /\ mwrites' = mwrites + 1
    /\ nwrites' = nwrites + 1
    /\ pc' = "done"
    /\ UNCHANGED <<today, files, csv, runs, valid_dates_to_fetch, di,
                   newly_fetched_data_frames, last_scanned_date, df_transformed,
                   grouped, requested, filesAtStart, manifestAtStart, slept,
                   nodataNow, nodataPast>>
    /\ UNCHANGED chartIdleVars

ChartNext ==
    \/ ChartTick
    \/ V2Start
    \/ V2Fetch
    \/ V2Save
    \/ ChartStart
    \/ ChartMerge
    \/ ChartWriteInfo

SpecChart == ChartInit /\ [][ChartNext]_vars

(***************************************************************************)
(* The manifest read on its own: the statements of "Load last scanned     *)
(* date" of getStockData_v1.py and of "4. Determine Last Scanned Date" of  *)
(* bulkToCsvForChart.py, applied to every manifest file a run can find.    *)
(***************************************************************************)
\* the symbol lists of a manifest
SymbolLists ==
    {q \in SeqsOf(Symbols, 0, Cardinality(Symbols)) :
       \A j, k \in 1..Len(q) : j # k => q[j] # q[k]}

\* texts of LastDateScanned: the days of the clock, the empty text and
\* texts that are not a date
DateTexts ==
    {StrfISO(t) : t \in (InitialStartDate - 1)..LastToday}
    \cup {<<>>, <<2019, 2, 30>>, <<2019, 13, 1>>}

\* the manifest files a run can find
ManifestDocs ==
    {NoManifest}
    \cup [exists : {TRUE}, json : {"invalid", "scalar", "list", "keyless"},
          symbol : {<<>>}, LastDateScanned : {<<0, 0, 0>>}]
    \cup [exists : {TRUE}, json : {"object"}, symbol : SymbolLists,
          LastDateScanned : DateTexts]

LoadInit ==
    /\ \E m \in ManifestDocs : InitIdle(InitialStartDate - 1, m)
    /\ InitMergeIdle
    /\ InitChartIdle
    /\ InitNormalizeIdle
    /\ InitCalendarIdle
    /\ InitOrderIdle
    /\ InitChangeIdle
    /\ InitDeliveryIdle

\* lines 89-99 of getStockData_v1.py
LoadV1 ==
    /\ pc = "idle"
    /\ last_scanned_date' = LoadLastScanned(manifest)
    /\ pc' = "v1_loaded"
    /\ UNCHANGED <<today, files, manifest, runs, valid_dates_to_fetch, di,
                   newly_fetched_data_frames, df_transformed, grouped,
                   requested, erroredNow, erroredPast, filesAtStart,
                   manifestAtStart, nwrites, crashes, preCrash, crashedDf,
                   slept, nodataNow, nodataPast, failedSymbol, mwrites>>
    /\ UNCHANGED sideVars

\* lines 25-39 of bulkToCsvForChart.py
LoadChart ==
    /\ pc = "idle"
    /\ LET loaded == ChartLoadLastScanned(manifest)
       IN  /\ last_scanned_date' = loaded.value
           /\ pc' = IF loaded.terminated THEN "crashed" ELSE "chart_loaded"
    /\ UNCHANGED <<today, files, manifest, runs, valid_dates_to_fetch, di,
                   newly_fetched_data_frames, df_transformed, grouped,
                   requested, erroredNow, erroredPast, filesAtStart,
                   manifestAtStart, nwrites, crashes, preCrash, crashedDf,
                   slept, nodataNow, nodataPast, failedSymbol, mwrites>>
    /\ UNCHANGED sideVars

LoadNext ==
    \/ LoadV1
    \/ LoadChart

SpecLoad == LoadInit /\ [][LoadNext]_vars

(***************************************************************************)
(* The result of one uninterrupted run, as a function of the persistent    *)
(* state it starts from and of what its fetch loop accumulates.            *)
(***************************************************************************)
RECURSIVE MergeAll(_, _, _)
\* the merge loop over the groupby keys
MergeAll(fs, df, keys) ==
    IF keys = <<>> THEN fs
    ELSE LET symbol == Head(keys)
             path   == output_file_path(symbol)
         IN  MergeAll([fs EXCEPT ![path] =
                          MergeSymbol(fs[path], SymbolFrame(df, symbol))],
                      df, Tail(keys))

\* lines 76-140 run to the end: the files and the manifest they leave
UninterruptedRun(fs, m, combined_df) ==
    LET df_filtered == FilterIncremental(combined_df, LoadLastScanned(m))
        df          == Transform(df_filtered)
    IN  IF combined_df = <<>> \/ df_filtered = <<>>
        THEN [files |-> fs, manifest |-> m]
        ELSE [files    |-> MergeAll(fs, df, GroupKeys(df)),
              manifest |-> SymbolInfo(combined_df)]

(***************************************************************************)
(* The normalization of one date's table on its own: the body of the try   *)
(* block of the fetch loop for every date and every response, and then the *)
(* transformation and the merge loop for the frame it appends.             *)
(***************************************************************************)
NormalizeInit ==
    /\ InitRun
    /\ InitMergeIdle
    /\ InitChartIdle
    /\ InitCalendarIdle
    /\ InitOrderIdle
    /\ InitChangeIdle
    /\ InitDeliveryIdle
    /\ nDate \in WindowDates
    /\ nResponse \in Responses
    /\ nFrame = <<>>
    /\ nStep = "fetched"

\* lines 53-70 of getStockData_v1.py, lines 98-131 of deliveryPerc_v2.py
Normalize ==
    /\ nStep = "fetched"
    /\ nFrame' = DailyFrame(nDate, nResponse)
    /\ nStep' = "normalized"
    /\ UNCHANGED <<nDate, nResponse>>
    /\ UNCHANGED runVars
    /\ UNCHANGED <<mergeVars, csv, calendarVars, orderVars, changeVars, deliveryVars>>

\* the frame goes through the transformation and the merge loop
NormalizeMerge ==
    /\ nStep = "normalized"
    /\ nFrame # <<>>
    /\ LET df == Transform(nFrame)
       IN  files' = MergeAll(files, df, GroupKeys(df))
    /\ nStep' = "merged"
    /\ UNCHANGED <<nDate, nResponse, nFrame>>
    /\ UNCHANGED <<today, manifest, pc, runs, valid_dates_to_fetch, di,
                   newly_fetched_data_frames, last_scanned_date, df_transformed,
                   grouped, requested, erroredNow, erroredPast, filesAtStart,
                   manifestAtStart, nwrites, crashes, preCrash, crashedDf,
                   slept, nodataNow, nodataPast, failedSymbol, mwrites>>
    /\ UNCHANGED <<mergeVars, csv, calendarVars, orderVars, changeVars, deliveryVars>>

NormalizeNext ==
    \/ Normalize
    \/ NormalizeMerge

SpecNormalize == NormalizeInit /\ [][NormalizeNext]_vars

(***************************************************************************)
(* generate_valid_dates on its own, for windows within a few days, windows *)
(* of a year and more, start after end, and holiday tables with days that  *)
(* exist in no year or in leap years only.                                 *)
(***************************************************************************)
\* days the windows start and end at, less one
CalSpan == 3

\* 2018-12-30, a Sunday
CalFirst == 17895

\* 2019-12-30, a Monday
CalSecond == 18260

\* the holiday tables
HolidayTables == SUBSET {<<1, 1>>, <<12, 31>>, <<2, 29>>, <<2, 30>>}

CalendarInit ==
    /\ InitRun
    /\ InitMergeIdle
    /\ InitChartIdle
    /\ InitNormalizeIdle
    /\ InitOrderIdle
    /\ InitChangeIdle
    /\ InitDeliveryIdle
    /\ cStart \in CalFirst..(CalFirst + CalSpan)
    /\ cEnd \in CalFirst..(CalFirst + CalSpan) \cup CalSecond..(CalSecond + CalSpan)
    /\ cHolidays \in HolidayTables
    /\ cDates = <<>>
    /\ cStep = "called"

\* generate_valid_dates(start, end, holidays_month_day) returns
Generate ==
    /\ cStep = "called"
    /\ cDates' = generate_valid_dates(cStart, cEnd, cHolidays)
    /\ cStep' = "returned"
    /\ UNCHANGED <<cStart, cEnd, cHolidays>>
    /\ UNCHANGED runVars
    /\ UNCHANGED <<mergeVars, csv, normalizeVars, orderVars, changeVars, deliveryVars>>

CalendarNext == Generate

SpecCalendar == CalendarInit /\ [][CalendarNext]_vars

(***************************************************************************)
(* The merge loop with its iterations taken in any order: every set of     *)
(* prior per-symbol files and every df_transformed of up to MaxRows        *)
(* records, the groups merged one at a time in an order the check chooses. *)
(***************************************************************************)
\* records of df_transformed
TransformedRows ==
    [SYMBOL : Symbols, Date : {StrfDDMMYYYY(t) : t \in WindowDates},
     DelPerc : DelPercValues]

\* df_transformed as the fetch loop leaves it: never empty here, dates never
\* decreasing
TransformedFrames ==
    {q \in SeqsOf(TransformedRows, 1, MaxRows) : FetchOrdered(q)}

OrderInit ==
    /\ InitRun
    /\ InitMergeIdle
    /\ InitChartIdle
    /\ InitNormalizeIdle
    /\ InitCalendarIdle
    /\ InitChangeIdle
    /\ InitDeliveryIdle
    /\ oPrior \in [Symbols -> PriorFiles]
    /\ oDf \in TransformedFrames
    /\ oFiles = oPrior
    /\ oLeft = {s \in Symbols : \E k \in 1..Len(oDf) : oDf[k].SYMBOL = s}
    /\ oOrder = <<>>

\* the body of the merge loop for one of the groups still to be merged
OrderMerge ==
    /\ \E symbol \in oLeft :
         LET path == output_file_path(symbol)
         IN  /\ oFiles' = [oFiles EXCEPT
                             ![path] = MergeSymbol(oFiles[path],
                                                   SymbolFrame(oDf, symbol))]
             /\ oLeft' = oLeft \ {symbol}
             /\ oOrder' = Append(oOrder, symbol)
    /\ UNCHANGED <<oPrior, oDf>>
    /\ UNCHANGED runVars
    /\ UNCHANGED <<mergeVars, csv, normalizeVars, calendarVars, changeVars, deliveryVars>>

OrderNext == OrderMerge

SpecOrder == OrderInit /\ [][OrderNext]_vars

(***************************************************************************)
(* Change_Percentage of one record on its own: computed when the record is *)
(* fetched, or when it is read from a combined CSV that has no such        *)
(* column, and then gone over by the recomputation before the CSV is       *)
(* saved.  Prices are in hundredths and NaN is a price that did not        *)
(* convert; a Change_Percentage is a float64: a number in hundredths, NaN, *)
(* inf or -inf.                                                            *)
(***************************************************************************)
\* PREV_CLOSE and CLOSE_PRICE after pd.to_numeric(errors='coerce')
Prices == {NaN, 0, 300, 995, 1000, 1050}

FloatNaN == [kind |-> "nan", value |-> 0]
FloatInf == [kind |-> "inf", value |-> 0]
FloatNegInf == [kind |-> "-inf", value |-> 0]
Float(v) == [kind |-> "num", value |-> v]

\* n / d rounded to the nearest integer, halves to the even one, d > 0
RoundHalfEven(n, d) ==
    LET q == n \div d
        r == n - q * d
    IN  IF 2 * r < d THEN q
        ELSE IF 2 * r > d THEN q + 1
        ELSE IF q % 2 = 0 THEN q ELSE q + 1

\* (((CLOSE_PRICE - PREV_CLOSE) / PREV_CLOSE) * 100).round(2) in float64
Change_Percentage(close, prev) ==
    IF close = NaN \/ prev = NaN THEN FloatNaN
    ELSE IF prev = 0
         THEN IF close - prev = 0 THEN FloatNaN
              ELSE IF close - prev > 0 THEN FloatInf ELSE FloatNegInf
         ELSE Float(RoundHalfEven((close - prev) * 10000, prev))

\* Series.isna()
isna(x) == x.kind = "nan"

ChangeInit ==
    /\ InitRun
    /\ InitMergeIdle
    /\ InitChartIdle
    /\ InitNormalizeIdle
    /\ InitCalendarIdle
    /\ InitOrderIdle
    /\ InitDeliveryIdle
    /\ gPrev \in Prices
    /\ gClose \in Prices
    /\ gFirst = FloatNaN
    /\ gChange = FloatNaN
    /\ gStep \in {"response", "legacy"}

\* "Add Change_Percentage column rounded to 2 decimals" for a fetched record
ChangeOnFetch ==
    /\ gStep = "response"
    /\ gChange' = Change_Percentage(gClose, gPrev)
    /\ gFirst' = gChange'
    /\ gStep' = "computed"
    /\ UNCHANGED <<gPrev, gClose>>
    /\ UNCHANGED runVars
    /\ UNCHANGED <<mergeVars, csv, normalizeVars, calendarVars, orderVars, deliveryVars>>

\* "If Change_Percentage is missing but price columns exist, compute it" for
\* a record of the existing combined CSV
ChangeOnLoad ==
    /\ gStep = "legacy"
    /\ gChange' = Change_Percentage(gClose, gPrev)
    /\ gFirst' = gChange'
    /\ gStep' = "loaded"
    /\ UNCHANGED <<gPrev, gClose>>
    /\ UNCHANGED runVars
    /\ UNCHANGED <<mergeVars, csv, normalizeVars, calendarVars, orderVars, deliveryVars>>

\* "Recompute where NaN and round to 2 decimals", before the CSV is saved
ChangeOnMerge ==
    /\ gStep \in {"computed", "loaded"}
    /\ gChange' = IF isna(gChange) THEN Change_Percentage(gClose, gPrev)
                  ELSE gChange
    /\ gStep' = "saved"
    /\ UNCHANGED <<gPrev, gClose, gFirst>>
    /\ UNCHANGED runVars
    /\ UNCHANGED <<mergeVars, csv, normalizeVars, calendarVars, orderVars, deliveryVars>>

ChangeNext ==
    \/ ChangeOnFetch
    \/ ChangeOnLoad
    \/ ChangeOnMerge

SpecChange == ChangeInit /\ [][ChangeNext]_vars

(***************************************************************************)
(* One run of fetch_delivery_data.py with its combined CSV in place: the   *)
(* window from the latest TRADE_DATE of the file, the clock and the 6 PM   *)
(* rule, then the fetch loop and the save.  The run starts on any day from *)
(* initial_start_date_str on, at any of a few hours of the day.            *)
(***************************************************************************)
\* initial_end_date_str = '2026-02-05'
InitialEndDate == 20489

\* the last day of the clock of this script
LastTodayFdd == InitialStartDate + MaxDays

\* current_local_time.hour
Hours == {9, 17, 18, 23}

\* the combined files the run can find: records of one earlier trading day
ExistingCsv ==
    {[exists |-> TRUE,
      rows   |-> <<[SYMBOL |-> SymbolOrder[1], TRADE_DATE |-> StrfISO(t),
                    DELIV_PER |-> to_numeric("45.5")]>>] :
       t \in {d \in InitialStartDate..(LastTodayFdd - 1) :
                generate_valid_dates(d, d, holidays_md) # <<>>}}

\* "4. Check if output_csv_file exists" to "6b.vii": valid_dates_to_fetch
WindowFdd(file, today_date_normalized, hour) ==
    IF ~file.exists
    THEN generate_valid_dates(InitialStartDate, InitialEndDate, holidays_md)
    ELSE LET new_fetch_start_date ==
                 IF file.rows # <<>> THEN MaxTradeDate(file.rows) + 1
                 ELSE InitialStartDate
         IN  IF hour < 18 /\ new_fetch_start_date <= today_date_normalized
             THEN <<>>
             ELSE IF new_fetch_start_date > today_date_normalized
                  THEN <<>>
                  ELSE generate_valid_dates(new_fetch_start_date,
                                            today_date_normalized, holidays_md)

\* the body of the try block of its fetch loop: every column is kept, so
\* there is no test for required columns
DailyFrameFdd(date_obj, response) ==
    IF response.kind # "table" THEN <<>>
    ELSE IF response.rows = <<>> THEN <<>>
    ELSE IF ~response.hasSeries THEN <<>>
    ELSE LET df_filtered_daily ==
                 SelectSeq(response.rows, LAMBDA r : strip(r.SERIES) = "EQ")
         IN  [k \in 1..Len(df_filtered_daily) |->
                [SYMBOL     |-> df_filtered_daily[k].SYMBOL,
                 TRADE_DATE |-> StrfISO(date_obj),
                 DELIV_PER  |-> to_numeric(df_filtered_daily[k].DELIV_PER)]]

\* the frames one iteration of its fetch loop can append for date_obj
FetchOutcomesFdd ==
    [date_obj \in InitialStartDate..LastTodayFdd |->
       {DailyFrameFdd(date_obj, response) : response \in Responses}]

DeliveryInit ==
    /\ InitRun
    /\ InitMergeIdle
    /\ InitChartIdle
    /\ InitNormalizeIdle
    /\ InitCalendarIdle
    /\ InitOrderIdle
    /\ InitChangeIdle
    /\ fCsv \in ExistingCsv
    /\ fCsvAtStart = fCsv
    /\ fToday \in InitialStartDate..LastTodayFdd
    /\ fHour \in Hours
    /\ fWindow = <<>>
    /\ fDi = 1
    /\ fNew = <<>>
    /\ fStep = "idle"

\* the script starts and determines the window
FddStart ==
    /\ fStep = "idle"
    /\ fWindow' = WindowFdd(fCsv, fToday, fHour)
    /\ fDi' = 1
    /\ fNew' = <<>>
    /\ fStep' = "fetch"
    /\ UNCHANGED <<fCsv, fCsvAtStart, fToday, fHour>>
    /\ UNCHANGED runVars
    /\ UNCHANGED <<mergeVars, csv, normalizeVars, calendarVars, orderVars,
                   changeVars>>

\* one iteration of the fetch loop
FddFetch ==
    /\ fStep = "fetch"
    /\ fDi <= Len(fWindow)
    /\ \E frame \in FetchOutcomesFdd[fWindow[fDi]] :
         /\ Len(fNew) + Len(frame) <= MaxRows
         /\ fNew' = fNew \o frame
    /\ fDi' = fDi + 1
    /\ UNCHANGED <<fCsv, fCsvAtStart, fToday, fHour, fWindow, fStep>>
    /\ UNCHANGED runVars
    /\ UNCHANGED <<mergeVars, csv, normalizeVars, calendarVars, orderVars,
                   changeVars>>

\* "8." to "10.": the existing records and then the new ones, saved
FddSave ==
    /\ fStep = "fetch"
    /\ fDi > Len(fWindow)
    /\ fCsv' = IF fCsv.rows \o fNew # <<>>
               THEN [exists |-> TRUE, rows |-> fCsv.rows \o fNew]
               ELSE fCsv
    /\ fStep' = "done"
    /\ UNCHANGED <<fCsvAtStart, fToday, fHour, fWindow, fDi, fNew>>
    /\ UNCHANGED runVars
    /\ UNCHANGED <<mergeVars, csv, normalizeVars, calendarVars, orderVars,
                   changeVars>>

DeliveryNext ==
    \/ FddStart
    \/ FddFetch
    \/ FddSave

SpecDelivery == DeliveryInit /\ [][DeliveryNext]_vars

(***************************************************************************)
(* Vocabulary of the properties.                                           *)
(***************************************************************************)
\* the last record of a non-empty frame
Last(frame) == frame[Len(frame)]

\* the rows of a series stored for day t
RowsOn(rows, t) == SelectSeq(rows, LAMBDA r : ParseDDMMYYYY(r.Date) = t)

\* the records the run fetched for symbol s on day t
FetchedOn(s, t) ==
    SelectSeq(newly_fetched_data_frames,
              LAMBDA r : r.SYMBOL = s /\ ParseISO(r.TRADE_DATE) = t)

\* the days for which the run's fetch loop accumulated records
YieldedDates ==
    {ParseISO(newly_fetched_data_frames[k].TRADE_DATE) :
       k \in 1..Len(newly_fetched_data_frames)}

\* the series of s holds for day t what it held when the run started: no
\* row if it had none, and else the value of the last row it had
KeptOn(s, t) ==
    IF RowsOn(filesAtStart[s].rows, t) = <<>>
    THEN RowsOn(files[s].rows, t) = <<>>
    ELSE /\ RowsOn(files[s].rows, t) # <<>>
         /\ Last(RowsOn(files[s].rows, t)) = Last(RowsOn(filesAtStart[s].rows, t))

\* the run has ended after writing the manifest
RunCommitted == pc = "done" /\ nwrites > 0

\* LastDateScanned of a manifest, as a day
Watermark(m) == ParseISO(m.LastDateScanned)

\* the manifest holds a watermark a run can read
Readable(m) == LoadLastScanned(m) \notin {None, NaT}

ContractSeries(E, N) ==
    LET dates == {ParseDDMMYYYY(E[k].Date) : k \in 1..Len(E)} \cup
                 {ParseDDMMYYYY(N[k].Date) : k \in 1..Len(N)}
        order == SeqOfSet(dates)
    IN  [k \in 1..Len(order) |->
           IF RowsOn(N, order[k]) # <<>>
           THEN Last(RowsOn(N, order[k]))
           ELSE Last(RowsOn(E, order[k]))]

C2_MergeContract ==
    mCount >= 1 => mOnce.rows = ContractSeries(mPrior.rows, mNew)

(***************************************************************************)
(* C3.  Every per-symbol series file has strictly increasing dates, with   *)
(* at most one record per date, in every reachable persisted state.        *)
(***************************************************************************)
C3_SeriesStrictlyIncreasing ==
    \A s \in Symbols : StrictlyAscending(files[s].rows)

C5_ErrorDateStaysEligible ==
    /\ RunCommitted =>
         \A t \in erroredNow : Watermark(manifest) < t
    /\ pc = "done" =>
         \A t \in erroredPast : \A s \in Symbols :
             FetchedOn(s, t) # <<>> => RowsOn(files[s].rows, t) # <<>>

\* C5 as amended: the watermark of a run passes a date whose fetch raised
\* exactly when a later date of the same run yielded records; a later run
\* that gets data for the date adds its records when the date is after the
\* LastDateScanned that run reads (or it reads none), and otherwise drops
\* them and the series keep what they held for that date
C5_ErrorDatePassedByLaterData ==
    /\ RunCommitted =>
         \A t \in erroredNow :
             /\ Watermark(manifest) # t
             /\ Watermark(manifest) > t <=> \E u \in YieldedDates : u > t
    /\ pc = "done" =>
         \A t \in erroredPast : \A s \in Symbols :
             FetchedOn(s, t) # <<>> =>
                 IF last_scanned_date = None \/ t > last_scanned_date
                 THEN RowsOn(files[s].rows, t) # <<>>
                 ELSE KeptOn(s, t)

\* a date raised in an earlier run, was passed by the watermark, and the data
\* a later run gets for it is not in the series
C5_Witness ==
    /\ pc = "done"
    /\ last_scanned_date # None
    /\ \E t \in erroredPast :
         /\ t <= last_scanned_date
         /\ FetchedOn("ABC", t) # <<>>
         /\ RowsOn(files["ABC"].rows, t) = <<>>

(***************************************************************************)
(* C6.  A first run stored a record for S on D and committed; a second run *)
(* re-fetches D with a revised DelPerc for S: afterwards the series of S   *)
(* holds the revised value for D, in exactly one row.                      *)
(***************************************************************************)
\* the run re-fetched day t for s, stored before, with another value
Revised(s, t) ==
    /\ RowsOn(filesAtStart[s].rows, t) # <<>>
    /\ FetchedOn(s, t) # <<>>
    /\ Last(FetchedOn(s, t)).DELIV_PER # Last(RowsOn(filesAtStart[s].rows, t)).DelPerc

\* the one row that carries the re-fetched value
RevisedRow(s, t) ==
    <<[Date |-> StrfDDMMYYYY(t), DelPerc |-> Last(FetchedOn(s, t)).DELIV_PER]>>

C7_MergeIdempotent ==
    mCount = 2 => mFile = mOnce

(***************************************************************************)
(* C8.  Every manifest write leaves LastDateScanned greater than or equal  *)
(* to the value the run read.                                              *)
(***************************************************************************)
C8_WatermarkMonotone ==
    RunCommitted /\ Readable(manifestAtStart) =>
        /\ last_scanned_date = Watermark(manifestAtStart)
        /\ Watermark(manifest) >= last_scanned_date

\* a run that read a watermark and wrote a later one
C8_Witness ==
    /\ RunCommitted
    /\ Readable(manifestAtStart)
    /\ Watermark(manifest) > Watermark(manifestAtStart)

(***************************************************************************)
(* C9.  A run started when the calendar yields no eligible date after the  *)
(* watermark issues no fetch request and writes nothing: the per-symbol    *)
(* files and the manifest are unchanged.                                   *)
(***************************************************************************)
\* no date of the run's window is after the watermark the run starts with
NoEligibleDate ==
    \/ valid_dates_to_fetch = <<>>
    \/ /\ Readable(manifestAtStart)
       /\ \A k \in 1..Len(valid_dates_to_fetch) :
              valid_dates_to_fetch[k] <= Watermark(manifestAtStart)

SameSourceRerun ==
    /\ crashes = 1
    /\ crashedDf \in {<<>>, newly_fetched_data_frames}

C10_CrashThenRerunAsUninterrupted ==
    /\ pc = "crashed" => manifest = manifestAtStart
    /\ pc = "done" /\ SameSourceRerun =>
         LET once == UninterruptedRun(preCrash.files, preCrash.manifest,
                                      newly_fetched_data_frames)
         IN  /\ files = once.files
             /\ manifest = once.manifest

(***************************************************************************)
(* C11.  Within one run the manifest is written at most once, only after   *)
(* every per-symbol merge of the run has finished and only if the run      *)
(* requested at least one date; a run that requested no date leaves the    *)
(* manifest as it found it.                                                *)
(***************************************************************************)
C11_ManifestWrittenOnceAfterFetch ==
    /\ mwrites <= 1
    /\ mwrites = 1 => grouped = <<>> /\ requested # <<>>
    /\ requested = <<>> => mwrites = 0 /\ manifest = manifestAtStart

(***************************************************************************)
(* C12.  Every manifest commit writes as known symbols the union of the    *)
(* symbols of the manifest the run started with and the symbols the run    *)
(* fetched, so no commit loses a symbol.                                   *)
(***************************************************************************)
\* the symbols a manifest lists
KnownSymbols(m) == {m.symbol[k] : k \in 1..Len(m.symbol)}

\* the symbols of the records the run fetched
SeenSymbols ==
    {newly_fetched_data_frames[k].SYMBOL : k \in 1..Len(newly_fetched_data_frames)}

C12_CommitKeepsKnownSymbols ==
    RunCommitted =>
        KnownSymbols(manifest) = KnownSymbols(manifestAtStart) \cup SeenSymbols

(***************************************************************************)
(* C13.  Per-date failure isolation: whatever one iteration of the fetch   *)
(* loop ends with, the loop stays in the run, keeps the records of the     *)
(* earlier dates and goes on with the next date; a run that leaves the     *)
(* loop has requested every date of its window, and a run that committed   *)
(* has merged every record it accumulated that passed the filter.          *)
(***************************************************************************)
\* frame a is the beginning of frame b
IsPrefix(a, b) == Len(a) <= Len(b) /\ SubSeq(b, 1, Len(a)) = a

\* the record passed the incremental filter of the run
PassedFilter(r) ==
    last_scanned_date = None \/ ParseISO(r.TRADE_DATE) > last_scanned_date

C14_SymbolFailureIsolated ==
    failedSymbol # NoSymbol =>
        /\ pc \in {"merge", "write", "done"}
        /\ pc = "done" => mwrites = 1

(***************************************************************************)
(* C15.  Loading the manifest never terminates the run: an absent file, a  *)
(* file that is not JSON, a document that is not an object, a document     *)
(* without the LastDateScanned key and a LastDateScanned that is not a     *)
(* date all leave the run with no last scanned date, and the run goes on.  *)
(***************************************************************************)
\* the manifest is a document with a LastDateScanned that is a date
WellFormed(m) ==
    /\ m.exists
    /\ m.json = "object"
    /\ Len(m.LastDateScanned) = 3
    /\ IsCalendarDay(m.LastDateScanned[1], m.LastDateScanned[2],
                     m.LastDateScanned[3])

C15_LoadNeverTerminates ==
    /\ pc # "crashed"
    /\ pc \in {"v1_loaded", "chart_loaded"} /\ ~WellFormed(manifest) =>
          last_scanned_date = None

(***************************************************************************)
(* C16.  A date of the window for which the archive returned no data       *)
(* counts as processed: once the run that attempted it has committed, no   *)
(* later run requests that date again.                                     *)
(***************************************************************************)
\* the dates the run has requested
RequestedDates == {requested[k] : k \in 1..Len(requested)}

C17_ManifestReplacedAtomically ==
    \/ manifest = manifestAtStart
    \/ /\ mwrites = 1
       /\ manifest.exists
       /\ manifest.json = "object"
       /\ KnownSymbols(manifest) # {}

(***************************************************************************)
(* C18.  Normalization of one date's table keeps exactly the rows whose    *)
(* trimmed SERIES is 'EQ', in their order, tagged with the requested date; *)
(* a table without the SERIES column or without a required column gives    *)
(* no record; and every record the merge puts into a series comes from an  *)
(* 'EQ' row of a table with all the columns.                               *)
(***************************************************************************)
\* the rows of the response that are equity rows: 'EQ' with or without
\* whitespace around it, and no other spelling
EquityRows ==
    SelectSeq(nResponse.rows, LAMBDA r : r.SERIES \in {"EQ", " EQ"})

\* the response is a table with the SERIES column and the required columns
CompleteTable ==
    nResponse.kind = "table" /\ nResponse.hasSeries /\ nResponse.hasRequired

C18_NormalizeKeepsEquityRows ==
    /\ nStep \in {"normalized", "merged"} =>
          /\ Len(nFrame) = IF CompleteTable THEN Len(EquityRows) ELSE 0
          /\ \A k \in 1..Len(nFrame) :
                 /\ nFrame[k].SYMBOL = EquityRows[k].SYMBOL
                 /\ nFrame[k].DELIV_PER = to_numeric(EquityRows[k].DELIV_PER)
                 /\ ParseISO(nFrame[k].TRADE_DATE) = nDate
    /\ nStep = "merged" =>
          \A s \in Symbols : \A j \in 1..Len(files[s].rows) :
              /\ CompleteTable
              /\ ParseDDMMYYYY(files[s].rows[j].Date) = nDate
              /\ \E k \in 1..Len(EquityRows) :
                     /\ EquityRows[k].SYMBOL = s
                     /\ to_numeric(EquityRows[k].DELIV_PER) =
                            files[s].rows[j].DelPerc

\* a table with an ' EQ' row and a row of another series: the one record
\* of the ' EQ' row is in the series of its symbol
C18_Witness ==
    /\ nStep = "merged"
    /\ Len(nResponse.rows) = 2
    /\ nResponse.rows[1].SERIES = "BE"
    /\ nResponse.rows[2].SERIES = " EQ"
    /\ nResponse.rows[2].SYMBOL = "XYZ"
    /\ Len(files["XYZ"].rows) = 1
    /\ ~files["ABC"].exists

(***************************************************************************)
(* C19.  generate_valid_dates(start, end, holidays) returns, ascending and *)
(* without duplicates, exactly the days d with start <= d <= end that are  *)
(* Monday to Friday and whose (month, day) is not in holidays, in every    *)
(* year of the range; it returns no date when start > end.                 *)
(***************************************************************************)
\* the day is a Saturday or a Sunday (day 0, 1970-01-01, was a Thursday)
Weekend(d) == (d + 3) % 7 \in {5, 6}

\* the (month, day) of the day
MonthDay(d) == <<CivilFromDays(d)[2], CivilFromDays(d)[3]>>

C19_ValidDatesExact ==
    cStep = "returned" =>
        /\ \A k \in 1..(Len(cDates) - 1) : cDates[k] < cDates[k + 1]
        /\ {cDates[k] : k \in 1..Len(cDates)} =
              {d \in cStart..cEnd : ~Weekend(d) /\ MonthDay(d) \notin cHolidays}
        /\ cStart > cEnd => cDates = <<>>

\* a window of more than a year with January 1 and a day that does not
\* exist in the table: January 1 of both years is left out
C19_Witness ==
    /\ cStep = "returned"
    /\ cStart <= 17897
    /\ cEnd >= 18262
    /\ cHolidays = {<<1, 1>>, <<2, 30>>}
    /\ Len(cDates) > 250
    /\ \A k \in 1..Len(cDates) : cDates[k] \notin {17897, 18262}
    /\ \E k \in 1..Len(cDates) : cDates[k] = 18261

(***************************************************************************)
(* C20.  Each iteration of the fetch loop issues one request, and between  *)
(* two consecutive requests of a run time.sleep(0.2) has run, whatever the *)
(* earlier request ended with.                                             *)
(***************************************************************************)
C20_DelayBetweenRequests ==
    [][requested' # requested /\ requested' # <<>> =>
           /\ Len(requested') = Len(requested) + 1
           /\ requested # <<>> => slept]_vars

(***************************************************************************)
(* C21.  Merging one symbol's group leaves the file of every other symbol  *)
(* as it was, and when all groups are merged, in whatever order, the file  *)
(* of each symbol is the merge of its own prior file with its own group.   *)
(***************************************************************************)
C21_MergesIndependent ==
    /\ [][\A a \in oLeft \ oLeft' : \A s \in Symbols \ {a} :
              oFiles'[s] = oFiles[s]]_vars
    /\ [](oOrder # <<>> /\ oLeft = {} =>
            \A s \in Symbols :
                oFiles[s] = IF \E k \in 1..Len(oOrder) : oOrder[k] = s
                            THEN MergeSymbol(oPrior[s], SymbolFrame(oDf, s))
                            ELSE oPrior[s])

\* both groups merged, the last group of the groupby first, each into a
\* file that existed
C21_Witness ==
    /\ oLeft = {}
    /\ oOrder = <<SymbolOrder[2], SymbolOrder[1]>>
    /\ \A s \in Symbols : oPrior[s].exists /\ oFiles[s] # oPrior[s]

(***************************************************************************)
(* C22.  Every run terminates: whatever each request of the window ends    *)
(* with, a run that is started reaches the end of the script, and its      *)
(* phases come in the order fetch loop, merges, manifest write: no merge   *)
(* before the fetch loop is over, no manifest write before the last merge, *)
(* and the end only from the fetch loop of a run with nothing to merge or  *)
(* from the manifest write.                                                *)
(***************************************************************************)
\* the moves of the script from one phase to the next
PhaseOrder ==
    {<<"idle", "fetch">>, <<"done", "fetch">>, <<"fetch", "merge">>,
     <<"fetch", "done">>, <<"merge", "write">>, <<"write", "done">>}

C22_RunTerminates ==
    /\ \A r \in 1..MaxRuns :
          (runs = r /\ pc = "fetch") ~> (runs = r /\ pc = "done")
    /\ [][pc' # pc => <<pc, pc'>> \in PhaseOrder]_vars
    /\ [](pc = "merge" \/ pc = "write" => di > Len(valid_dates_to_fetch))
    /\ [](pc = "write" => grouped = <<>>)

\* a run with a request that raised and a request that gave records has
\* written the manifest and is at its end
C22_Witness ==
    /\ pc = "done"
    /\ mwrites = 1
    /\ manifest.json = "object"
    /\ erroredNow # {}
    /\ Len(requested) = Len(valid_dates_to_fetch)
    /\ Len(requested) >= 2

(***************************************************************************)
(* C23.  A record whose delivery-percentage field is not numeric is stored *)
(* in the series of its symbol with DelPerc NaN, not with a number: for    *)
(* every stored record whose records of the combined CSV all have a        *)
(* DELIV_PER that did not convert, the stored DelPerc is NaN.              *)
(***************************************************************************)
\* the records of the combined CSV for symbol s on day t
CsvOn(s, t) ==
    SelectSeq(csv, LAMBDA r : r.SYMBOL = s /\ ParseISO(r.TRADE_DATE) = t)

C23_NonNumericStoredAsNaN ==
    \A s \in Symbols : \A j \in 1..Len(files[s].rows) :
        LET source == CsvOn(s, ParseDDMMYYYY(files[s].rows[j].Date))
        IN  /\ source # <<>>
            /\ \A k \in 1..Len(source) : source[k].DELIV_PER = NaN
            => files[s].rows[j].DelPerc = NaN

(***************************************************************************)
(* C24.  Change_Percentage of a record is NaN whenever PREV_CLOSE is zero  *)
(* or NaN or CLOSE_PRICE is NaN, never inf or another number; otherwise it *)
(* is (CLOSE_PRICE - PREV_CLOSE) / PREV_CLOSE * 100 rounded to 2 decimals; *)
(* and the recomputation before the save leaves what was first computed.   *)
(***************************************************************************)
C24_ChangePercentNaNOrQuotient ==
    gStep \in {"computed", "loaded", "saved"} =>
        /\ gChange = gFirst
        /\ IF gPrev = 0 \/ gPrev = NaN \/ gClose = NaN
           THEN gChange.kind = "nan"
           ELSE /\ gChange.kind = "num"
                /\ 2 * gPrev * gChange.value - 2 * (gClose - gPrev) * 10000
                      \in (0 - gPrev)..gPrev

(***************************************************************************)
(* C25.  In fetch_delivery_data.py, with the combined file in place and    *)
(* the day after its latest date strictly before today, the window holds   *)
(* every trading day from that day up to yesterday whatever the hour: the  *)
(* 6 PM rule withholds no date but today's own.                            *)
(***************************************************************************)
\* the day after the latest date of the file the run found
NextFetchStart == MaxTradeDate(fCsvAtStart.rows) + 1

\* the trading days from day a to day b
TradingDays(a, b) ==
    {d \in a..b : ~Weekend(d) /\ MonthDay(d) \notin holidays_md}

C25_PastDatesFetchedAtAnyHour ==
    /\ fStep \in {"fetch", "done"}
    /\ fCsvAtStart.exists
    /\ NextFetchStart < fToday
    => \A d \in TradingDays(NextFetchStart, fToday - 1) :
           \E k \in 1..Len(fWindow) : fWindow[k] = d

(***************************************************************************)
(* C26.  After every run that commits the manifest, every date stored in   *)
(* a per-symbol series is less than or equal to the LastDateScanned the    *)
(* run committed.                                                          *)
(***************************************************************************)
C26_StoredDatesWithinWatermark ==
    pc = "done" /\ mwrites > 0 =>
        \A s \in Symbols : \A j \in 1..Len(files[s].rows) :
            ParseDDMMYYYY(files[s].rows[j].Date) <= ParseISO(manifest.LastDateScanned)

(***************************************************************************)
(* C27.  No run removes history: a step of a run leaves every date stored  *)
(* in a series stored, and leaves the records of every date that is not in *)
(* the run's batch for the symbol as they were.                            *)
(***************************************************************************)
\* the days a frame of a series has records for
DatesOf(rows) == {ParseDDMMYYYY(rows[k].Date) : k \in 1..Len(rows)}

\* the records a frame of a series holds for a day
RecordsOn(rows, t) == {rows[k] : k \in {j \in 1..Len(rows) : ParseDDMMYYYY(rows[j].Date) = t}}

C27_NoHistoryRemoved ==
    [][\A s \in Symbols : \A t \in DatesOf(files[s].rows) :
          /\ t \in DatesOf(files'[s].rows)
          /\ t \notin DatesOf(SymbolFrame(df_transformed, s)) =>
                RecordsOn(files'[s].rows, t) = RecordsOn(files[s].rows, t)]_vars

====
